---- MODULE Spec2Model ----
(***************************************************************************)
(* The pan / zoom / pinch gesture engine of components/PanZoomImage.tsx.   *)
(*                                                                         *)
(* State: the two React state cells (transform, isInteracting), the        *)
(* gesture ref (anchor fields and the insertion-ordered pointer Map) and   *)
(* the elastic prop.  One action per DOM event binding of the container.   *)
(* Every handler reads the state committed by the previous event: React    *)
(* re-renders between two events, so the closure values transform and      *)
(* isInteracting are the current ones.                                     *)
(*                                                                         *)
(* Numbers.  Math.hypot is a square root, so a distance is carried as its  *)
(* square (a natural number) and a scale as the square of its value, a     *)
(* fraction <<n, d>> in lowest terms:  s = s0 * dist / d0  is the same as  *)
(* s^2 = s0^2 * dist^2 / d0^2, and clamping s to [1, 5] is clamping s^2 to *)
(* [1, 25].  The arithmetic is exact (no floating-point rounding).         *)
(* Translations are integers.                                              *)
(***************************************************************************)
EXTENDS Integers, Sequences, FiniteSets, TLC

(* ---------------------------------------------------------------- bounds *)

\* Pans are followed while |translateX| <= MaxTranslate and
\* |translateY| <= 2 * MaxTranslate (the positions below lie on a line of
\* slope 2, so a pan moves twice as far in y as in x).
MaxTranslate == 1

\* Pointer ids the environment uses (two touch contacts).
PointerIds == {1, 2}

\* Client positions of the events: three equally spaced points, so that the
\* distance between two pointers is 0, d or 2d.  A pinch then scales by 1/2,
\* 1 or 2 and the scales reached are 1, 1.25, 2, 2.5, 4 and 5.
Positions == { <<0, 0>>, <<1, 2>>, <<2, 4>> }

(* ------------------------------------------------------- exact fractions *)

RECURSIVE Gcd(_, _)
Gcd(a, b) == IF b = 0 THEN a ELSE Gcd(b, a % b)

\* The fraction n/d in lowest terms (n >= 0, d > 0).
Frac(n, d) == LET g == Gcd(n, d) IN <<n \div g, d \div g>>

FracLess(a, b) == a[1] * b[2] < b[1] * a[2]
FracLeq(a, b)  == a[1] * b[2] <= b[1] * a[2]
FracMin(a, b)  == IF FracLeq(a, b) THEN a ELSE b
FracMax(a, b)  == IF FracLeq(a, b) THEN b ELSE a

\* The scale value k (an integer, or a half-integer h/2), as its square.
ScaleOf(k)     == Frac(k * k, 1)
ScaleOfHalf(h) == Frac(h * h, 4)

(* ------------------------------------------------------------- constants *)

minScale    == ScaleOf(1)
maxScale    == ScaleOf(5)
presetScale == ScaleOfHalf(5)         \* 2.5

RestTransform   == [scale |-> ScaleOf(1), x |-> 0, y |-> 0]
PresetTransform == [scale |-> presetScale, x |-> 0, y |-> 0]

(* ----------------------------------------------------------------- state *)

VARIABLES
    elastic,        \* the elastic prop
    transform,      \* useState: [scale, x, y]
    isInteracting,  \* useState
    gesture,        \* useRef: the anchor fields and the pointer Map
    last,           \* the kind of the latest event
    prevented,      \* whether its handler called e.preventDefault()
    calls,          \* the callbacks it invoked, in order
    phase,          \* where the current single-pointer phase began
    escalated,      \* whether two pointers were tracked at once since none was
    held,           \* the pointers that went down and have had no terminal event
    reducer,        \* the explicit reducer run side by side (SpecReducer only)
    removed,        \* whether the latest event removed a tracked pointer
    story           \* the StoryViewer around the image (SpecStory only)

vars == <<elastic, transform, isInteracting, gesture, last, prevented, calls,
          phase, escalated, held, reducer, removed, story>>

(* ------------------------------------------------------- the pointer Map *)

\* gesture.current.pointers: a JavaScript Map keeps its keys in insertion
\* order, so it is a sequence of entries with distinct ids.
MapHas(m, id) == \E i \in 1..Len(m) : m[i].id = id

\* Map.prototype.set: an existing key keeps its place, a new one goes last.
MapSet(m, id, p) ==
    IF MapHas(m, id)
    THEN [i \in 1..Len(m) |-> IF m[i].id = id THEN [id |-> id, x |-> p[1], y |-> p[2]]
                                               ELSE m[i]]
    ELSE Append(m, [id |-> id, x |-> p[1], y |-> p[2]])

\* (variant: delete removes nothing)
MapDeleteNothing(m, id) == m

\* Map.prototype.delete: removing an absent key changes nothing.
MapDelete(m, id) == SelectSeq(m, LAMBDA e : e.id # id)

MapIds(m) == { m[i].id : i \in 1..Len(m) }

(* ------------------------------------------------------ geometry helpers *)

\* getDistance(p1, p2) = Math.hypot(p2.x - p1.x, p2.y - p1.y), as its square.
getDistance(p1, p2) ==
    (p2.x - p1.x) * (p2.x - p1.x) + (p2.y - p1.y) * (p2.y - p1.y)

\* (variant: the upper limit is not applied)
ClampScaleNoMax(scale) == FracMax(minScale, scale)

\* Math.max(minScale, Math.min(scale, maxScale))
ClampScale(scale) == FracMax(minScale, FracMin(scale, maxScale))

\* updateTransform(scale, x, y): the value handed to setTransform.
updateTransform(scale, x, y) == [scale |-> ClampScale(scale), x |-> x, y |-> y]

\* gesture.current.startScale * (dist / gesture.current.startDistance)
PinchScale(startScale, dist, startDistance) ==
    Frac(startScale[1] * dist, startScale[2] * startDistance)

\* touchActionStyle: 'none' blocks the ambient scroll, 'pan-x pan-y' allows it.
touchActionStyle == IF FracLess(minScale, transform.scale) THEN "none" ELSE "pan-x pan-y"

(* ------------------------------------------------------------------ Init *)

NoPhase == [on |-> FALSE, tx |-> 0, ty |-> 0, px |-> 0, py |-> 0]

\* StoryViewer's useState values: currentIndex, progress, isPaused, isZooming;
\* closed once onClose was called.
StoryInit ==
    [currentIndex |-> 0, progress |-> 0, isPaused |-> FALSE, isZooming |-> FALSE,
     closed |-> FALSE]

\* The reducer before any event: Idle, at rest, nothing tracked, no anchor.
ReducerInit ==
    [mode |-> "Idle", transform |-> RestTransform, pointers |-> << >>,
     anchor |-> [positions |-> << >>, transform |-> RestTransform, distance |-> 0],
     calls |-> << >>]

Init ==
    /\ elastic \in BOOLEAN
    /\ transform = RestTransform
    /\ isInteracting = FALSE
    /\ gesture = [startX |-> 0, startY |-> 0, startDistance |-> 0,
                  startScale |-> ScaleOf(1), initialX |-> 0, initialY |-> 0,
                  pointers |-> << >>]
    /\ last = "none"
    /\ prevented = FALSE
    /\ calls = << >>
    /\ phase = NoPhase
    /\ escalated = FALSE
    /\ held = {}
    /\ reducer = ReducerInit
    /\ removed = FALSE
    /\ story = StoryInit

(* -------------------------------------------------- bookkeeping per event *)

\* The single-pointer phase of the state after an event: it begins when the
\* number of tracked pointers becomes 1 or a pointer-down leaves it at 1, and
\* records the translation and the pointer position of that moment.
PhaseAfter(before, after, t, isDown) ==
    IF Len(after) # 1 THEN NoPhase
    ELSE IF Len(before) # 1 \/ isDown
         THEN [on |-> TRUE, tx |-> t.x, ty |-> t.y, px |-> after[1].x, py |-> after[1].y]
         ELSE phase

\* The contact phase lasts while a pointer is tracked; it has escalated once
\* two pointers were tracked at the same time.
EscalatedAfter(after) ==
    IF Len(after) = 0 THEN FALSE ELSE escalated \/ Len(after) >= 2

\* The pointers held down, told from the events alone: a pointer-down enters
\* the id with its position, a move of a held id replaces its position, a
\* terminal event drops the id.
HeldAfterDown(id, p) ==
    { e \in held : e.id # id } \cup { [id |-> id, x |-> p[1], y |-> p[2]] }

HeldAfterMove(id, p) ==
    IF \E e \in held : e.id = id
    THEN { e \in held : e.id # id } \cup { [id |-> id, x |-> p[1], y |-> p[2]] }
    ELSE held

HeldAfterTerminal(id) == { e \in held : e.id # id }

\* A handler that invoked no callback.
NoCallback == calls' = << >>

\* onInteractionStart() / onInteractionEnd(): both props are supplied.
Callback(name) == calls' = <<name>>

(* ------------------------------------------------------ handlePointerDown *)

\* The anchor captured by an engaging pointer-down, from the pointer values
\* after the insertion: startX.. for one pointer, startDistance.. for two.
DownAnchor(g, ptrs, t) ==
    IF Len(ptrs) = 1
    THEN [g EXCEPT !.pointers = ptrs,
                   !.startX = ptrs[1].x, !.startY = ptrs[1].y,
                   !.initialX = t.x, !.initialY = t.y]
    ELSE IF Len(ptrs) = 2
    THEN [g EXCEPT !.pointers = ptrs,
                   !.startDistance = getDistance(ptrs[1], ptrs[2]),
                   !.startScale = t.scale]
    ELSE [g EXCEPT !.pointers = ptrs]

\* (variant: the scale test is missing)
DownIsPassiveAnyScale(t, ptrs) == Len(ptrs) = 0

\* The early return of handlePointerDown: at scale 1 with no pointer tracked
\* the pointer is only recorded.
DownIsPassive(t, ptrs) == t.scale = ScaleOf(1) /\ Len(ptrs) = 0

handlePointerDown(id, p) ==
    LET ptrs == MapSet(gesture.pointers, id, p) IN
    /\ IF DownIsPassive(transform, gesture.pointers)
       THEN /\ gesture' = [gesture EXCEPT !.pointers = ptrs]
            /\ prevented' = FALSE
            /\ NoCallback
            /\ UNCHANGED isInteracting
       ELSE /\ prevented' = TRUE
            /\ Callback("start")
            /\ isInteracting' = TRUE
            /\ gesture' = DownAnchor(gesture, ptrs, transform)
    /\ phase' = PhaseAfter(gesture.pointers, ptrs, transform, TRUE)
    /\ escalated' = EscalatedAfter(ptrs)
    /\ held' = HeldAfterDown(id, p)
    /\ removed' = FALSE
    /\ UNCHANGED <<elastic, transform>>

PointerDown ==
    \E id \in PointerIds, p \in Positions :
        /\ handlePointerDown(id, p)
        /\ last' = "down"
        /\ UNCHANGED <<reducer, story>>

(* ------------------------------------------------------ handlePointerMove *)

\* (variant: the scale test is inverted)
MoveIsPassiveWhenZoomed(interacting, t) ==
    ~interacting /\ FracLess(ScaleOf(1), t.scale)

\* The passive branch: not interacting at scale 1, the sample is updated and
\* nothing else happens.
MoveIsPassive(interacting, t) == ~interacting /\ t.scale = ScaleOf(1)

\* (variant: the ratio is applied to the current scale, not the anchor's)
PinchTransformIncremental(g, ptrs, t) ==
    IF g.startDistance > 0
    THEN updateTransform(
             PinchScale(t.scale, getDistance(ptrs[1], ptrs[2]), g.startDistance),
             t.x, t.y)
    ELSE t

\* (variant: the pinch resets the translation to the centre)
PinchTransformRecentred(g, ptrs, t) ==
    IF g.startDistance > 0
    THEN updateTransform(
             PinchScale(g.startScale, getDistance(ptrs[1], ptrs[2]), g.startDistance),
             0, 0)
    ELSE t

\* Pinch logic: scale from the distance ratio, translation passed through.
PinchTransform(g, ptrs, t) ==
    IF g.startDistance > 0
    THEN updateTransform(
             PinchScale(g.startScale, getDistance(ptrs[1], ptrs[2]), g.startDistance),
             t.x, t.y)
    ELSE t

\* Pan logic: the anchor translation plus the pointer's displacement.
PanTransform(g, ptrs, t) ==
    updateTransform(t.scale,
                    g.initialX + (ptrs[1].x - g.startX),
                    g.initialY + (ptrs[1].y - g.startY))

\* The transform an engaged move sets, by the number of tracked pointers.
MoveTransform(g, ptrs, t) ==
    IF Len(ptrs) = 2 THEN PinchTransform(g, ptrs, t)
    ELSE IF Len(ptrs) = 1 /\ FracLess(ScaleOf(1), t.scale) THEN PanTransform(g, ptrs, t)
    ELSE t

\* The translations the model follows: a move that would pan further is not
\* delivered.
InRange(t) ==
    /\ t.x \in -MaxTranslate..MaxTranslate
    /\ t.y \in -(2 * MaxTranslate)..(2 * MaxTranslate)

\* (variant: the move of an untracked pointer is not ignored)
MoveIsUntrackedNever(m, id) == FALSE

\* The first return of handlePointerMove: the id is not in the Map.
MoveIsUntracked(m, id) == ~MapHas(m, id)

handlePointerMove(id, p) ==
    LET ptrs == MapSet(gesture.pointers, id, p) IN
    /\ IF MoveIsUntracked(gesture.pointers, id)
       THEN /\ prevented' = FALSE
            /\ UNCHANGED <<gesture, transform>>
       ELSE IF MoveIsPassive(isInteracting, transform)
       THEN /\ gesture' = [gesture EXCEPT !.pointers = ptrs]
            /\ prevented' = FALSE
            /\ UNCHANGED transform
       ELSE /\ prevented' = TRUE
            /\ gesture' = [gesture EXCEPT !.pointers = ptrs]
            /\ transform' = MoveTransform(gesture, ptrs, transform)
    /\ NoCallback
    /\ phase' = PhaseAfter(gesture.pointers, gesture'.pointers, transform', FALSE)
    /\ escalated' = EscalatedAfter(gesture'.pointers)
    /\ held' = HeldAfterMove(id, p)
    /\ removed' = FALSE
    /\ UNCHANGED <<elastic, isInteracting>>

PointerMove ==
    \E id \in PointerIds, p \in Positions :
        /\ handlePointerMove(id, p)
        /\ InRange(transform')
        /\ last' = "move"
        /\ UNCHANGED <<reducer, story>>

(* -------------------------------------------------------- handlePointerUp *)

\* (variant: the elastic prop is ignored)
ReleaseTransformNoElastic(el, t) ==
    IF FracLeq(t.scale, ScaleOf(1)) THEN RestTransform ELSE t

\* (variant: every release snaps back)
ReleaseTransformAlwaysRest(el, t) == RestTransform

\* (variant: the non-elastic boundary check is missing)
ReleaseTransformNoBoundary(el, t) == IF el THEN RestTransform ELSE t

\* The transform after the last pointer of an interaction is released.
ReleaseTransform(el, t) ==
    IF el THEN RestTransform
    ELSE IF FracLeq(t.scale, ScaleOf(1)) THEN RestTransform
    ELSE t

\* (variant: the anchor is not reset when one finger lifts)
UpAnchorKept(g, ptrs, t) == [g EXCEPT !.pointers = ptrs]

\* "Reset gesture start if one finger lifts but another remains".
UpAnchor(g, ptrs, t) ==
    IF Len(ptrs) = 1
    THEN [g EXCEPT !.pointers = ptrs,
                   !.startX = ptrs[1].x, !.startY = ptrs[1].y,
                   !.initialX = t.x, !.initialY = t.y]
    ELSE [g EXCEPT !.pointers = ptrs]

\* (variant: the release ends an interaction whether or not one is going on)
UpEndsInteractionAlways(interacting) == TRUE

\* "if (isInteracting)": only an interaction in progress is ended.
UpEndsInteraction(interacting) == interacting

handlePointerUp(id) ==
    LET ptrs == MapDelete(gesture.pointers, id) IN
    /\ IF Len(ptrs) = 0
       THEN /\ gesture' = [gesture EXCEPT !.pointers = ptrs]
            /\ IF UpEndsInteraction(isInteracting)
               THEN /\ isInteracting' = FALSE
                    /\ Callback("end")
                    /\ transform' = ReleaseTransform(elastic, transform)
               ELSE /\ NoCallback
                    /\ UNCHANGED <<isInteracting, transform>>
       ELSE /\ gesture' = UpAnchor(gesture, ptrs, transform)
            /\ NoCallback
            /\ UNCHANGED <<isInteracting, transform>>
    /\ prevented' = FALSE
    /\ phase' = PhaseAfter(gesture.pointers, ptrs, transform', FALSE)
    /\ escalated' = EscalatedAfter(ptrs)
    /\ held' = HeldAfterTerminal(id)
    /\ removed' = (\E e \in held : e.id = id)
    /\ UNCHANGED elastic

\* onPointerUp, onPointerCancel and onPointerLeave are all bound to
\* handlePointerUp.
\* (variant: onPointerCancel is not bound, the event reaches no handler)
PointerCancelUnbound ==
    /\ last' = "cancel"
    /\ prevented' = FALSE
    /\ NoCallback
    /\ removed' = FALSE
    /\ UNCHANGED <<elastic, transform, isInteracting, gesture, phase, escalated,
                    held, reducer, story>>

PointerUp     ==
    \E id \in PointerIds : handlePointerUp(id) /\ last' = "up" /\ UNCHANGED <<reducer, story>>
PointerCancel ==
    \E id \in PointerIds : handlePointerUp(id) /\ last' = "cancel" /\ UNCHANGED <<reducer, story>>
PointerLeave  ==
    \E id \in PointerIds : handlePointerUp(id) /\ last' = "leave" /\ UNCHANGED <<reducer, story>>

(* -------------------------------------------------------- handleDoubleTap *)

\* (variant: the test is scale >= 1)
DoubleTapTransformGeq(t) ==
    IF FracLeq(ScaleOf(1), t.scale) THEN RestTransform ELSE PresetTransform

\* The transform a double click sets: back to rest when zoomed, else the
\* centred 2.5x preset.
DoubleTapTransform(t) ==
    IF FracLess(ScaleOf(1), t.scale) THEN RestTransform ELSE PresetTransform

handleDoubleTap ==
    /\ transform' = DoubleTapTransform(transform)
    /\ IF FracLess(ScaleOf(1), transform.scale)
       THEN Callback("end") /\ isInteracting' = FALSE
       ELSE Callback("start") /\ isInteracting' = TRUE
    /\ prevented' = FALSE
    /\ phase' = PhaseAfter(gesture.pointers, gesture.pointers, transform', FALSE)
    /\ escalated' = EscalatedAfter(gesture.pointers)
    /\ removed' = FALSE
    /\ UNCHANGED <<elastic, gesture, held>>

\* onDoubleClick.  The browser derives dblclick from mouse events, which are
\* per button, while pointerdown / pointerup bracket the first press and the
\* last release: with one button held (its pointer tracked), a double click
\* of another button arrives with no pointer-down or pointer-up of its own.
\* The event is therefore enabled in every state.
DoubleClick == handleDoubleTap /\ last' = "dblclick" /\ UNCHANGED <<reducer, story>>

(* --------------------------------------------------------- specification *)

Next ==
    \/ PointerDown
    \/ PointerMove
    \/ PointerUp
    \/ PointerCancel
    \/ PointerLeave
    \/ DoubleClick

Spec == Init /\ [][Next]_vars

TypeOK ==
    /\ elastic \in BOOLEAN
    /\ isInteracting \in BOOLEAN
    /\ InRange(transform)
    /\ Len(gesture.pointers) <= Cardinality(PointerIds)
    /\ Cardinality(MapIds(gesture.pointers)) = Len(gesture.pointers)

(* ------------------------------------------------------------ properties *)

Tracked  == Len(gesture.pointers)
Zoomed   == FracLess(ScaleOf(1), transform.scale)
AtScale1 == transform.scale = ScaleOf(1)
Terminal == {"up", "cancel", "leave"}

\* A terminal event that removes the last tracked pointer.
ReleasedAll == Tracked > 0 /\ Len(gesture'.pointers) = 0

\* A pointer-move event of a tracked pointer, to position p.
TrackedMove(id, p) ==
    /\ MapHas(gesture.pointers, id)
    /\ handlePointerMove(id, p)
    /\ InRange(transform')
    /\ last' = "move"

\* clamp(s0 * d / d0, 1, 5) on the squared values, written out.
ExpectedPinchScale(s0, d, d0) ==
    LET raw == Frac(s0[1] * d, s0[2] * d0) IN
    IF raw[1] < raw[2] THEN <<1, 1>>
    ELSE IF raw[1] > 25 * raw[2] THEN <<25, 1>>
    ELSE raw

\* C1: after every event, in elastic and non-elastic mode, 1 <= scale <= 5.
ScaleInRange ==
    /\ transform.scale[1] >= transform.scale[2]
    /\ transform.scale[1] <= 25 * transform.scale[2]

\* C1 witness: a pinch anchored at scale 4 doubled its distance and the
\* scale was clamped to 5.
ScaleClampedAtMax ==
    /\ last = "move" /\ Tracked = 2 /\ isInteracting
    /\ gesture.startScale = ScaleOf(4)
    /\ gesture.startDistance > 0
    /\ getDistance(gesture.pointers[1], gesture.pointers[2]) = 4 * gesture.startDistance
    /\ transform.scale = ScaleOf(5)

\* C2: with elastic = true, the terminal event that removes the last tracked
\* pointer leaves the transform at {1, 0, 0}.
ElasticReleaseRests ==
    [][(elastic /\ ReleasedAll) => transform' = RestTransform]_vars

\* C2 witness: an elastic surface whose interaction, panned from a non-zero
\* translation, has just been ended by a terminal event.
ElasticReleased ==
    /\ elastic /\ last \in Terminal /\ Tracked = 0
    /\ calls = <<"end">>
    /\ gesture.initialX # 0
    /\ transform = RestTransform

\* C3: with elastic = false, the terminal event that removes the last tracked
\* pointer while scale > 1 leaves scale, translateX and translateY as they were.
NonElasticReleaseKeepsZoom ==
    [][(~elastic /\ ReleasedAll /\ Zoomed) => transform' = transform]_vars

\* C3 witness: a non-elastic surface released while zoomed and panned.
NonElasticReleasedZoomed ==
    /\ ~elastic /\ last \in Terminal /\ Tracked = 0
    /\ calls = <<"end">>
    /\ Zoomed /\ transform.x # 0

\* C4: with elastic = false, the terminal event that removes the last tracked
\* pointer while scale <= 1 leaves the transform at {1, 0, 0}.
NonElasticReleaseAtScale1Rests ==
    [][(~elastic /\ ReleasedAll /\ ~Zoomed) => transform' = RestTransform]_vars

\* C4 witness: a non-elastic surface whose interaction ended at rest after a
\* pinch that was anchored zoomed-in at a panned translation.
NonElasticReleasedAtScale1 ==
    /\ ~elastic /\ last \in Terminal /\ Tracked = 0
    /\ calls = <<"end">>
    /\ FracLess(ScaleOf(1), gesture.startScale) /\ gesture.initialX # 0
    /\ transform = RestTransform

\* A state C4 is about: one pointer left, Engaged, scale 1, translation left
\* over from a pinch that ended at scale 1.
LeftoverTranslationAtScale1 ==
    /\ ~elastic /\ Tracked = 1 /\ isInteracting
    /\ AtScale1 /\ transform.x # 0

\* C5: onInteractionStart is invoked exactly on the steps that take
\* isInteracting from false to true and onInteractionEnd exactly on the steps
\* that take it from true to false, so the two callbacks alternate.
CallbacksMatchTransitions ==
    [][ /\ (calls' = <<"start">>) <=> (~isInteracting /\ isInteracting')
        /\ (calls' = <<"end">>) <=> (isInteracting /\ ~isInteracting') ]_vars

\* C6: a double-activation lands on {1, 0, 0} with onInteractionEnd when
\* scale was > 1 and on {2.5, 0, 0} with onInteractionStart otherwise, one
\* callback each; from either preset it lands on the other, so two in a row
\* return to the preset.
DoubleTapToggles ==
    [][ last' = "dblclick" =>
          /\ Zoomed  => (transform' = RestTransform /\ calls' = <<"end">>)
          /\ ~Zoomed => (transform' = PresetTransform /\ calls' = <<"start">>)
          /\ transform = RestTransform => transform' = PresetTransform
          /\ transform = PresetTransform => transform' = RestTransform
          /\ transform \in {RestTransform, PresetTransform} =>
                 DoubleTapTransform(transform') = transform ]_vars

\* C6 witness: a double-activation, arriving while pointers were tracked on a
\* zoomed surface, has reset it.
DoubleTapReset ==
    /\ last = "dblclick" /\ Tracked > 0
    /\ calls = <<"end">> /\ ~isInteracting
    /\ transform = RestTransform

\* C7: in Engaged mode with two tracked pointers and anchor s0 =
\* startScale, d0 = startDistance # 0, a move that makes the distance d sets
\* scale to clamp(s0 * d / d0, 1, 5); doubling from scale 1 gives 2, and a
\* ratio implying more than 5 gives 5.
PinchMoveScale ==
    [][ \A id \in PointerIds, p \in Positions :
          (TrackedMove(id, p) /\ Tracked = 2 /\ isInteracting
                              /\ gesture.startDistance > 0) =>
            LET d  == getDistance(gesture'.pointers[1], gesture'.pointers[2])
                s0 == gesture.startScale
                d0 == gesture.startDistance
            IN /\ transform'.scale = ExpectedPinchScale(s0, d, d0)
               /\ (s0 = <<1, 1>> /\ d = 4 * d0) => transform'.scale = <<4, 1>>
               /\ (s0[1] * d > 25 * s0[2] * d0) => transform'.scale = <<25, 1>> ]_vars

\* C7 witness: a pinch anchored at scale 1 has doubled its distance.
PinchDoubled ==
    /\ last = "move" /\ Tracked = 2 /\ isInteracting
    /\ gesture.startScale = ScaleOf(1)
    /\ gesture.startDistance > 0
    /\ getDistance(gesture.pointers[1], gesture.pointers[2]) = 4 * gesture.startDistance
    /\ transform.scale = ScaleOf(2)

\* C8: with one pointer tracked and scale > 1, a move of that pointer sets the
\* translation to the one held when the single-pointer phase began plus the
\* pointer's displacement since then, and keeps the scale.
PanFollowsPointer ==
    [][ \A id \in PointerIds, p \in Positions :
          (TrackedMove(id, p) /\ Tracked = 1 /\ Zoomed) =>
            transform' = [scale |-> transform.scale,
                          x |-> phase.tx + (p[1] - phase.px),
                          y |-> phase.ty + (p[2] - phase.py)] ]_vars

\* C9 as stated: with one pointer tracked and scale = 1, a move of that
\* pointer leaves the transform unchanged and does not call preventDefault.
MoveAtScale1NeverPrevents ==
    [][ \A id \in PointerIds, p \in Positions :
          (TrackedMove(id, p) /\ Tracked = 1 /\ AtScale1) =>
            (transform' = transform /\ ~prevented') ]_vars

\* C9 amended: with one pointer tracked and scale = 1, a move of that pointer
\* leaves the transform unchanged; it does not call preventDefault when the
\* engine is not Engaged, and calls it when the engine is Engaged.
MoveAtScale1PassiveOnly ==
    [][ \A id \in PointerIds, p \in Positions :
          (TrackedMove(id, p) /\ Tracked = 1 /\ AtScale1) =>
            (transform' = transform /\ (prevented' <=> isInteracting)) ]_vars

\* C9 witness: a passively tracked pointer has moved away from where it went
\* down, at scale 1, unsuppressed.
PassiveMoveDone ==
    /\ last = "move" /\ Tracked = 1 /\ ~isInteracting /\ AtScale1
    /\ phase.on /\ gesture.pointers[1].x # phase.px
    /\ ~prevented
    /\ transform = RestTransform

\* C10: whenever isInteracting is true, touch-action is 'none'.
EngagedBlocksScroll == isInteracting => touchActionStyle = "none"

\* C11 as stated: scale > 1 only in Engaged mode, and scale = 1 only in
\* PassiveTrack or Idle mode (not Engaged).
ModeFollowsScale ==
    /\ Zoomed => isInteracting
    /\ AtScale1 => ~isInteracting

\* C11 amended: while a pointer is tracked, scale > 1 only in Engaged mode.
ZoomedContactIsEngaged == (Zoomed /\ Tracked > 0) => isInteracting

\* C11 witness: a pointer has gone down on a surface left zoomed by a
\* non-elastic release, and the engine is Engaged.
ZoomedContactEngaged ==
    /\ ~elastic /\ last = "down" /\ Tracked = 1
    /\ Zoomed /\ transform.scale # presetScale
    /\ isInteracting

(* ------------------------------------------------- the two-finger scenario *)

\* Pointer A goes down at (100,100), pointer B at (140,100); both move along
\* y = 100 until they are 80 apart; B is released; A moves by (+30, 0); A is
\* released.  The stage of the scenario is read off the latest event and the
\* number of tracked pointers.
ScenarioA  == <<100, 100>>
ScenarioB  == <<140, 100>>
ScenarioXs == { 40, 60, 80, 100, 120, 140, 160, 180, 200 }

ScenarioDistance == getDistance(gesture.pointers[1], gesture.pointers[2])

ScenarioInit == Init /\ elastic = FALSE

ScenarioADown ==
    /\ last = "none"
    /\ handlePointerDown(1, ScenarioA)
    /\ last' = "down"
    /\ UNCHANGED <<reducer, story>>

ScenarioBDown ==
    /\ last = "down" /\ Tracked = 1
    /\ handlePointerDown(2, ScenarioB)
    /\ last' = "down"
    /\ UNCHANGED <<reducer, story>>

ScenarioPinchMove ==
    /\ Tracked = 2
    /\ \E id \in {1, 2}, x \in ScenarioXs : handlePointerMove(id, <<x, 100>>)
    /\ last' = "move"
    /\ UNCHANGED <<reducer, story>>

ScenarioBUp ==
    /\ Tracked = 2 /\ last = "move"
    /\ ScenarioDistance = 80 * 80
    /\ handlePointerUp(2)
    /\ last' \in Terminal
    /\ UNCHANGED <<reducer, story>>

ScenarioAMove ==
    /\ Tracked = 1 /\ last \in Terminal
    /\ handlePointerMove(1, <<gesture.pointers[1].x + 30, gesture.pointers[1].y>>)
    /\ last' = "move"
    /\ UNCHANGED <<reducer, story>>

ScenarioAUp ==
    /\ Tracked = 1 /\ last = "move"
    /\ handlePointerUp(1)
    /\ last' \in Terminal
    /\ UNCHANGED <<reducer, story>>

ScenarioNext ==
    \/ ScenarioADown
    \/ ScenarioBDown
    \/ ScenarioPinchMove
    \/ ScenarioBUp
    \/ ScenarioAMove
    \/ ScenarioAUp

SpecScenario == ScenarioInit /\ [][ScenarioNext]_vars

\* C12: the scenario passes through passive tracking after A's down, Engaged
\* with anchor distance 40 after B's down, scale 2 when the pointers are 80
\* apart, scale still 2 after B lifts, translateX 30 after A's move, and ends
\* at {2, 30, 0} with no interaction in progress.
ScenarioStages ==
    /\ (last = "down" /\ Tracked = 1) =>
          (~isInteracting /\ ~prevented /\ transform = RestTransform)
    /\ (last = "down" /\ Tracked = 2) =>
          (isInteracting /\ gesture.startDistance = 40 * 40
                         /\ transform = RestTransform)
    /\ (last = "move" /\ Tracked = 2 /\ ScenarioDistance = 80 * 80) =>
          transform = [scale |-> <<4, 1>>, x |-> 0, y |-> 0]
    /\ (last \in Terminal /\ Tracked = 1) =>
          (isInteracting /\ transform = [scale |-> <<4, 1>>, x |-> 0, y |-> 0])
    /\ (last = "move" /\ Tracked = 1) =>
          (isInteracting /\ transform = [scale |-> <<4, 1>>, x |-> 30, y |-> 0])
    /\ (last \in Terminal /\ Tracked = 0) =>
          (~isInteracting /\ transform = [scale |-> <<4, 1>>, x |-> 30, y |-> 0])

\* C12 witness: the scenario has run to its end.
ScenarioDone ==
    /\ last \in Terminal /\ Tracked = 0
    /\ calls = <<"end">>
    /\ transform = [scale |-> <<4, 1>>, x |-> 30, y |-> 0]

\* C13: a pointer-up, pointer-cancel or pointer-leave event for an id that is
\* not tracked changes neither the pointer set, the anchor, the transform nor
\* the interacting flag, and invokes no callback.
UntrackedTerminalIsNoOp ==
    [][\A id \in PointerIds :
          (~MapHas(gesture.pointers, id) /\ handlePointerUp(id) /\ last' \in Terminal)
              => (UNCHANGED <<gesture, transform, isInteracting>> /\ calls' = << >>)]_vars

\* C14: a pointer-cancel or pointer-leave event acts on the state exactly as
\* handlePointerUp does for its pointer id; a terminal event that leaves no
\* pointer tracked leaves the engine not interacting, and every step that
\* takes isInteracting from true to false invokes onInteractionEnd.
CancelAndLeaveActAsUp ==
    [][ /\ last' \in {"cancel", "leave"} => \E id \in PointerIds : handlePointerUp(id)
        /\ (last' \in Terminal /\ Len(gesture'.pointers) = 0) => ~isInteracting'
        /\ (isInteracting /\ ~isInteracting') => calls' = <<"end">> ]_vars

\* C14 witness: a pinch has been ended by pointer-cancel or pointer-leave
\* events for both of its pointers.
EngagementEndedByCancel ==
    /\ last \in {"cancel", "leave"} /\ Tracked = 0
    /\ gesture.startDistance > 0
    /\ calls = <<"end">> /\ ~isInteracting

(* ----------------------------------------------- three simultaneous contacts *)

\* A third finger: three pointer ids, delivered as a touch screen delivers
\* them, a pointer-down only for an id that is not tracked and a move or a
\* terminal event only for one that is, so that every pointer-down and every
\* terminal event changes the number of tracked pointers.
ThreeIds == {1, 2, 3}

\* The position the Map records for a tracked id.
MapGet(m, id) ==
    LET i == CHOOSE i \in 1..Len(m) : m[i].id = id IN <<m[i].x, m[i].y>>

ThreeDown ==
    \E id \in ThreeIds, p \in Positions :
        /\ ~MapHas(gesture.pointers, id)
        /\ handlePointerDown(id, p)
        /\ last' = "down"
        /\ UNCHANGED <<reducer, story>>

ThreeMove ==
    \E id \in ThreeIds, p \in Positions :
        /\ MapHas(gesture.pointers, id)
        /\ handlePointerMove(id, p)
        /\ InRange(transform')
        /\ last' = "move"
        /\ UNCHANGED <<reducer, story>>

ThreeTerminal ==
    \E id \in ThreeIds, kind \in Terminal :
        /\ MapHas(gesture.pointers, id)
        /\ handlePointerUp(id)
        /\ last' = kind
        /\ UNCHANGED <<reducer, story>>

ThreeNext == ThreeDown \/ ThreeMove \/ ThreeTerminal

SpecThree == Init /\ [][ThreeNext]_vars

\* C15: after a pointer-down or terminal event that changed the number of
\* tracked pointers, a move event that reports a pointer's already recorded
\* position leaves the transform unchanged.
AnchorNotCarried ==
    [][ \A id \in ThreeIds :
          ( /\ last \in {"down"} \cup Terminal
            /\ MapHas(gesture.pointers, id)
            /\ handlePointerMove(id, MapGet(gesture.pointers, id))
            /\ last' = "move" ) => transform' = transform ]_vars

\* C16: while three pointers are tracked in Engaged mode, a move of either of
\* the first two sets the scale by the pinch rule computed from those two,
\* as it would with the third absent.
ThirdContactIgnored ==
    [][ \A id \in ThreeIds, p \in Positions :
          ( /\ Tracked = 3 /\ isInteracting
            /\ gesture.startDistance > 0
            /\ id \in {gesture.pointers[1].id, gesture.pointers[2].id}
            /\ handlePointerMove(id, p)
            /\ last' = "move" ) =>
            transform'.scale =
                ExpectedPinchScale(gesture.startScale,
                                   getDistance(gesture'.pointers[1], gesture'.pointers[2]),
                                   gesture.startDistance) ]_vars

\* C17: in Engaged mode, a terminal event that leaves one of two tracked
\* pointers keeps the transform, whichever pointer was lifted; when scale > 1,
\* the next move of the remaining pointer changes the translation by exactly
\* the pointer's displacement from its position at that moment, and keeps the
\* scale.
LiftOneReanchors ==
    [][ /\ ( /\ isInteracting /\ Tracked = 2
             /\ last' \in Terminal
             /\ Len(gesture'.pointers) = 1 ) => transform' = transform
        /\ \A id \in PointerIds, p \in Positions :
             ( /\ last \in Terminal /\ Tracked = 1 /\ escalated
               /\ isInteracting /\ Zoomed
               /\ TrackedMove(id, p) ) =>
               transform' = [scale |-> transform.scale,
                             x |-> transform.x + (p[1] - gesture.pointers[1].x),
                             y |-> transform.y + (p[2] - gesture.pointers[1].y)] ]_vars

\* C17 witness: one pointer of a pinch was lifted on a zoomed, panned
\* surface and the remaining one has then moved, panning it further.
PannedAfterLift ==
    /\ last = "move" /\ Tracked = 1 /\ escalated /\ isInteracting /\ Zoomed
    /\ phase.on /\ phase.tx # 0
    /\ gesture.pointers[1].x # phase.px
    /\ gesture.startX = phase.px /\ gesture.initialX = phase.tx
    /\ transform.x = phase.tx + (gesture.pointers[1].x - phase.px)

\* C18: a pointer-down that leaves one pointer tracked while scale = 1 only
\* records the pointer: no preventDefault, no onInteractionStart, the
\* interacting flag as it was.  Every other pointer-down (one pointer tracked
\* with scale > 1, or two tracked) sets the flag, invokes onInteractionStart
\* and captures a fresh anchor.
DownEngagesByResultingCardinality ==
    [][ \A id \in PointerIds, p \in Positions :
          (handlePointerDown(id, p) /\ last' = "down") =>
            LET n == Len(gesture'.pointers) IN
            /\ MapHas(gesture'.pointers, id) /\ MapGet(gesture'.pointers, id) = p
            /\ (n = 1 /\ AtScale1) =>
                  /\ ~prevented' /\ calls' = << >>
                  /\ isInteracting' = isInteracting
            /\ (n = 1 /\ Zoomed) =>
                  /\ isInteracting' /\ calls' = <<"start">>
                  /\ gesture'.startX = p[1] /\ gesture'.startY = p[2]
                  /\ gesture'.initialX = transform.x /\ gesture'.initialY = transform.y
            /\ n = 2 =>
                  /\ isInteracting' /\ calls' = <<"start">>
                  /\ gesture'.startDistance =
                         getDistance(gesture'.pointers[1], gesture'.pointers[2])
                  /\ gesture'.startScale = transform.scale ]_vars

\* C19: a pointer-move event at scale 1, in a contact phase that never had
\* two pointers tracked at once, does not call preventDefault.
UnescalatedMoveAtScale1NotPrevented ==
    [][ \A id \in PointerIds, p \in Positions :
          ( /\ AtScale1 /\ ~escalated
            /\ handlePointerMove(id, p)
            /\ last' = "move" ) => ~prevented' ]_vars

\* C20: whenever no pointer is tracked and scale = 1, the translation is
\* (0, 0); a non-zero translation at scale 1 exists only while a pointer of
\* a gesture in progress is tracked.
RestingAtScale1IsUnpanned ==
    (Tracked = 0 /\ AtScale1) => (transform.x = 0 /\ transform.y = 0)

\* C20 witness: a non-elastic surface that had been zoomed and panned in both
\* directions has ended an interaction at scale 1 and is at rest.
SettledAfterPinchToScale1 ==
    /\ ~elastic /\ last \in Terminal /\ Tracked = 0 /\ AtScale1
    /\ calls = <<"end">>
    /\ gesture.initialX # 0 /\ gesture.initialY # 0
    /\ gesture.startScale # ScaleOf(1)
    /\ transform.x = 0 /\ transform.y = 0

\* C21: a pointer is tracked while the engine is not Engaged only at scale 1
\* with at most one pointer tracked; with two or more pointers tracked the
\* engine is Engaged.
PassiveOnlyAtScale1WithOnePointer ==
    /\ (Tracked >= 1 /\ ~isInteracting) => (AtScale1 /\ Tracked <= 1)
    /\ Tracked >= 2 => isInteracting

\* C22: in a pinch whose two pointers went down at the same position
\* (startDistance = 0), a move that keeps them together leaves the scale at
\* the anchor's scale, and once a move has taken them apart, a move that
\* takes them further apart raises the scale again (below the maximum).
CoincidentPinchRecovers ==
    [][ \A id \in PointerIds, p \in Positions :
          ( /\ Tracked = 2 /\ isInteracting
            /\ gesture.startDistance = 0
            /\ transform.scale = gesture.startScale
            /\ TrackedMove(id, p) ) =>
            LET d1 == getDistance(gesture.pointers[1], gesture.pointers[2])
                d2 == getDistance(gesture'.pointers[1], gesture'.pointers[2])
            IN /\ d2 = 0 => transform'.scale = gesture.startScale
               /\ (last = "move" /\ d1 > 0 /\ d2 > d1
                     /\ FracLess(transform.scale, maxScale)) =>
                      FracLess(transform.scale, transform'.scale) ]_vars

\* C23: a move processed while exactly two pointers are tracked leaves
\* translateX and translateY as they were; only the scale can change.
PinchKeepsTranslation ==
    [][ \A id \in PointerIds, p \in Positions :
          (TrackedMove(id, p) /\ Tracked = 2) =>
            (transform'.x = transform.x /\ transform'.y = transform.y) ]_vars

\* C23 witness: a pinch on a panned surface has changed the scale away from
\* the anchor's and the translation is still there.
PinchedWhilePanned ==
    /\ last = "move" /\ Tracked = 2 /\ isInteracting
    /\ gesture.startDistance > 0
    /\ getDistance(gesture.pointers[1], gesture.pointers[2]) # gesture.startDistance
    /\ transform.scale # gesture.startScale
    /\ transform.x # 0 /\ transform.y # 0

\* C24: a pointer-move event for an id that is not tracked changes neither
\* the tracked pointers and their positions, the anchor, the transform nor
\* the interacting flag, and does not call preventDefault.
UntrackedMoveIsNoOp ==
    [][ \A id \in PointerIds, p \in Positions :
          ( /\ id \notin MapIds(gesture.pointers)
            /\ handlePointerMove(id, p)
            /\ last' = "move" ) =>
            /\ UNCHANGED <<gesture, transform, isInteracting>>
            /\ ~prevented' /\ calls' = << >> ]_vars

\* C24 witness: on a zoomed surface with one pointer tracked in Engaged
\* mode, where a move of the tracked pointer calls preventDefault, a move
\* has arrived that did not: it was for the other, untracked id.
UntrackedMoveWhileEngaged ==
    /\ last = "move" /\ Tracked = 1 /\ isInteracting /\ Zoomed
    /\ ~prevented

\* C25: after every event, the tracked pointers are exactly the ids that
\* received a pointer-down not yet followed by an up, cancel or leave, each
\* id once, each with the position of its latest down or move event.
TrackedAreHeld ==
    /\ { gesture.pointers[i] : i \in 1..Len(gesture.pointers) } = held
    /\ Cardinality(MapIds(gesture.pointers)) = Len(gesture.pointers)
    /\ Cardinality(held) = Len(gesture.pointers)

\* C25 witness: of two pointers that went down, one has had its terminal
\* event; the other has moved since and is the one tracked, at the position
\* of that move.
OneOfTwoStillTracked ==
    /\ last = "move" /\ Tracked = 1 /\ escalated
    /\ phase.on /\ gesture.pointers[1].x # phase.px
    /\ held = { gesture.pointers[1] }

(* ------------------------------------------- the explicit reducer, side by side *)

\* The tagged-variant reducer {Idle, PassiveTrack, Engaged} of the design's
\* pointer lifecycle, written from its transition table: state [mode,
\* transform, pointers, anchor, calls], where calls are the callbacks the
\* latest event emitted.  Scales are squares, as everywhere in this module.

\* A fresh anchor: current positions, current transform, pairwise distance.
ReducerAnchor(ptrs, t) ==
    [positions |-> ptrs, transform |-> t,
     distance |-> IF Len(ptrs) >= 2 THEN getDistance(ptrs[1], ptrs[2]) ELSE 0]

\* on pointer-down(id, x, y)
ReducerDown(r, id, p) ==
    LET ptrs == MapSet(r.pointers, id, p) IN
    IF Len(ptrs) = 1 /\ r.transform.scale = ScaleOf(1)
    THEN [r EXCEPT !.pointers = ptrs, !.mode = "PassiveTrack", !.calls = << >>]
    ELSE [r EXCEPT !.pointers = ptrs, !.mode = "Engaged", !.calls = <<"start">>,
                   !.anchor = ReducerAnchor(ptrs, r.transform)]

\* The pinch branch, with the guard of the numeric policy: an origin distance
\* of 0 gives ratio 1, and is taken from the first move that finds the
\* pointers apart.
ReducerPinch(r, ptrs) ==
    LET d == getDistance(ptrs[1], ptrs[2]) IN
    IF r.anchor.distance = 0
    THEN [r EXCEPT !.pointers = ptrs, !.anchor.distance = d]
    ELSE [r EXCEPT !.pointers = ptrs,
                   !.transform = [scale |-> ExpectedPinchScale(r.anchor.transform.scale,
                                                               d, r.anchor.distance),
                                  x |-> r.anchor.transform.x,
                                  y |-> r.anchor.transform.y]]

\* The pan branch: the anchor's translation plus the displacement from the
\* anchor's first position.
ReducerPan(r, ptrs) ==
    [r EXCEPT !.pointers = ptrs,
              !.transform = [scale |-> r.transform.scale,
                             x |-> r.anchor.transform.x + (ptrs[1].x - r.anchor.positions[1].x),
                             y |-> r.anchor.transform.y + (ptrs[1].y - r.anchor.positions[1].y)]]

\* on pointer-move(id, x, y)
ReducerMove(r, id, p) ==
    LET ptrs == MapSet(r.pointers, id, p)
        q    == [r EXCEPT !.calls = << >>]
    IN IF ~MapHas(r.pointers, id) THEN q
       ELSE IF r.mode # "Engaged" THEN [q EXCEPT !.pointers = ptrs]
       ELSE IF Len(ptrs) = 2 THEN ReducerPinch(q, ptrs)
       ELSE IF Len(ptrs) = 1 /\ FracLess(ScaleOf(1), r.transform.scale)
            THEN ReducerPan(q, ptrs)
       ELSE [q EXCEPT !.pointers = ptrs]

\* on pointer-up / pointer-cancel / pointer-leave(id)
ReducerTerminal(r, id, el) ==
    LET ptrs == MapDelete(r.pointers, id) IN
    IF Len(ptrs) = 0
    THEN [r EXCEPT !.pointers = ptrs, !.mode = "Idle",
                   !.calls = IF r.mode = "Engaged" THEN <<"end">> ELSE << >>,
                   !.transform = IF el \/ FracLeq(r.transform.scale, ScaleOf(1))
                                 THEN RestTransform ELSE r.transform]
    ELSE IF Len(r.pointers) = 2 /\ Len(ptrs) = 1 /\ r.mode = "Engaged"
    THEN [r EXCEPT !.pointers = ptrs, !.calls = << >>,
                   !.anchor = ReducerAnchor(ptrs, r.transform)]
    ELSE [r EXCEPT !.pointers = ptrs, !.calls = << >>]

\* The mode of the implementation, from isInteracting and the pointer count.
ImplementationMode ==
    IF isInteracting THEN "Engaged"
    ELSE IF Tracked > 0 THEN "PassiveTrack"
    ELSE "Idle"

\* The event sequences of the comparison: a pointer-down only for an id that
\* is not tracked, a move or terminal event only for one that is, at most two
\* pointers tracked, no double click.  Each event goes to both.
ReducerDownStep ==
    \E id \in PointerIds, p \in Positions :
        /\ ~MapHas(gesture.pointers, id)
        /\ handlePointerDown(id, p)
        /\ reducer' = ReducerDown(reducer, id, p)
        /\ last' = "down"
        /\ UNCHANGED story

ReducerMoveStep ==
    \E id \in PointerIds, p \in Positions :
        /\ MapHas(gesture.pointers, id)
        /\ handlePointerMove(id, p)
        /\ reducer' = ReducerMove(reducer, id, p)
        /\ InRange(transform') /\ InRange(reducer'.transform)
        /\ last' = "move"
        /\ UNCHANGED story

ReducerTerminalStep ==
    \E id \in PointerIds, kind \in Terminal :
        /\ MapHas(gesture.pointers, id)
        /\ handlePointerUp(id)
        /\ reducer' = ReducerTerminal(reducer, id, elastic)
        /\ last' = kind
        /\ UNCHANGED story

ReducerNext == ReducerDownStep \/ ReducerMoveStep \/ ReducerTerminalStep

SpecReducer == Init /\ [][ReducerNext]_vars

\* C26: on event sequences with distinct pointer ids, terminal events only
\* for tracked ids, at most two pointers tracked and no double click, the
\* implementation and the explicit reducer have the same transform, the same
\* mode and the same callback invocations after every event.
ReducerAgrees ==
    /\ reducer.transform = transform
    /\ reducer.mode = ImplementationMode
    /\ reducer.calls = calls

\* C27: in elastic mode, whenever isInteracting is false the transform is
\* the resting transform {1, 0, 0}.
ElasticIdleIsAtRest ==
    (elastic /\ ~isInteracting) => transform = RestTransform

\* C27 witness: an elastic surface that had been zoomed during the
\* interaction (a pinch was anchored at a scale above 1) is no longer
\* interacting after the release of its last pointer.
ElasticBackAtRest ==
    /\ elastic /\ ~isInteracting /\ Tracked = 0
    /\ last \in Terminal /\ calls = <<"end">>
    /\ FracLess(ScaleOf(1), gesture.startScale)
    /\ transform = RestTransform

\* C28: a terminal event that removes the last tracked pointer while the
\* engine is not Engaged leaves the transform unchanged and invokes neither
\* onInteractionStart nor onInteractionEnd.
PassiveReleaseIsSilent ==
    [][ (ReleasedAll /\ ~isInteracting /\ last' \in Terminal) =>
          (transform' = transform /\ calls' = << >>) ]_vars

\* C28 witness: the only tracked pointer, tracked passively, has just been
\* removed by a terminal event and nothing else happened.
PassivePointerReleased ==
    /\ last \in Terminal /\ removed /\ Tracked = 0
    /\ ~isInteracting /\ calls = << >>
    /\ transform = RestTransform

(* ------------------------------------------------------------- StoryViewer *)

\* StoryViewer renders one PanZoomImage, non-elastic, keyed by currentIndex,
\* with its own handlers as onInteractionStart / onInteractionEnd.  The
\* pointer events are those a browser delivers: a pointer-down only for an
\* id that is not tracked, a move or terminal event only for one that is.

\* storyImages.length
StoryImages == 2

\* The timer ticks a full progress bar takes (100 in the program, where a
\* tick adds 50 / STORY_DURATION * 100 = 1 to progress).
ProgressFull == 1

\* handleInteractionStart / handleInteractionEnd, for the callbacks cs that
\* the image's handler invoked.
StoryAfterCalls(s, cs) ==
    IF cs = <<"start">> THEN [s EXCEPT !.isPaused = TRUE, !.isZooming = TRUE]
    ELSE IF cs = <<"end">> THEN [s EXCEPT !.isPaused = FALSE, !.isZooming = FALSE]
    ELSE s

\* The image's state is untouched by an event of the viewer alone.
ImageUntouched ==
    /\ prevented' = FALSE
    /\ NoCallback
    /\ removed' = FALSE
    /\ UNCHANGED <<elastic, transform, isInteracting, gesture, phase, escalated,
                   held, reducer>>

\* key={currentIndex}: a new index mounts a new PanZoomImage, in its
\* initial state.
ImageRemounted ==
    /\ transform' = RestTransform
    /\ isInteracting' = FALSE
    /\ gesture' = [startX |-> 0, startY |-> 0, startDistance |-> 0,
                   startScale |-> ScaleOf(1), initialX |-> 0, initialY |-> 0,
                   pointers |-> << >>]
    /\ prevented' = FALSE
    /\ NoCallback
    /\ phase' = NoPhase
    /\ escalated' = FALSE
    /\ held' = {}
    /\ removed' = FALSE
    /\ UNCHANGED <<elastic, reducer>>

StoryPointerDown ==
    /\ ~story.closed
    /\ \E id \in PointerIds, p \in Positions :
        /\ ~MapHas(gesture.pointers, id)
        /\ handlePointerDown(id, p)
    /\ last' = "down"
    /\ story' = StoryAfterCalls(story, calls')
    /\ UNCHANGED reducer

StoryPointerMove ==
    /\ ~story.closed
    /\ \E id \in PointerIds, p \in Positions :
        /\ MapHas(gesture.pointers, id)
        /\ handlePointerMove(id, p)
    /\ InRange(transform')
    /\ last' = "move"
    /\ story' = StoryAfterCalls(story, calls')
    /\ UNCHANGED reducer

StoryPointerTerminal ==
    /\ ~story.closed
    /\ \E id \in PointerIds :
        /\ MapHas(gesture.pointers, id)
        /\ handlePointerUp(id)
    /\ last' \in Terminal
    /\ story' = StoryAfterCalls(story, calls')
    /\ UNCHANGED reducer

StoryDoubleClick ==
    /\ ~story.closed
    /\ handleDoubleTap
    /\ last' = "dblclick"
    /\ story' = StoryAfterCalls(story, calls')
    /\ UNCHANGED reducer

\* The interval callback of the timer effect, which runs only while neither
\* isPaused nor isZooming.
StoryTimerTick ==
    /\ ~story.closed
    /\ ~(story.isPaused \/ story.isZooming)
    /\ last' = "timer"
    /\ IF story.progress >= ProgressFull
       THEN IF story.currentIndex < StoryImages - 1
            THEN /\ story' = [story EXCEPT !.currentIndex = @ + 1, !.progress = 0]
                 /\ ImageRemounted
            ELSE /\ story' = [story EXCEPT !.closed = TRUE]
                 /\ ImageUntouched
       ELSE /\ story' = [story EXCEPT !.progress = @ + 1]
            /\ ImageUntouched

\* handleNext, from a click on the right tap zone, rendered when !isZooming.
StoryTapNext ==
    /\ ~story.closed
    /\ ~story.isZooming
    /\ last' = "next"
    /\ IF story.isZooming
       THEN UNCHANGED story /\ ImageUntouched
       ELSE IF story.currentIndex < StoryImages - 1
       THEN /\ story' = [story EXCEPT !.currentIndex = @ + 1, !.progress = 0]
            /\ ImageRemounted
       ELSE /\ story' = [story EXCEPT !.closed = TRUE]
            /\ ImageUntouched

\* handlePrev, from a click on the left tap zone, rendered when !isZooming.
StoryTapPrev ==
    /\ ~story.closed
    /\ ~story.isZooming
    /\ last' = "prev"
    /\ IF story.isZooming
       THEN UNCHANGED story /\ ImageUntouched
       ELSE IF story.currentIndex > 0
       THEN /\ story' = [story EXCEPT !.currentIndex = @ - 1, !.progress = 0]
            /\ ImageRemounted
       ELSE /\ story' = [story EXCEPT !.progress = 0]
            /\ ImageUntouched

StoryNext ==
    \/ StoryPointerDown
    \/ StoryPointerMove
    \/ StoryPointerTerminal
    \/ StoryDoubleClick
    \/ StoryTimerTick
    \/ StoryTapNext
    \/ StoryTapPrev

\* StoryViewer passes no elastic prop: the default, false.
StoryViewerInit == Init /\ elastic = FALSE

SpecStory == StoryViewerInit /\ [][StoryNext]_vars

\* C29: in StoryViewer, in every state in which the story image is zoomed
\* (scale > 1) or a gesture is Engaged, the auto-advance timer is paused and
\* tap navigation is disabled (isZooming is true, so is isPaused), and no
\* step taken while the image is zoomed changes the story index.
StoryHoldsWhileZoomed ==
    [][ /\ (Zoomed \/ isInteracting) => (story.isZooming /\ story.isPaused)
        /\ Zoomed => story'.currentIndex = story.currentIndex ]_vars

====
